---------------------------- MODULE Spec2Model ----------------------------
(***************************************************************************)
(* Model of scripts/train_naive_bayes.py: the Naive Bayes trainer of the   *)
(* expense tracker.  One run of train_naive_bayes(data_file, output_file)  *)
(* is a sequential pipeline: load the file, turn records into documents,   *)
(* count, estimate, export, self-test, report.                             *)
(*                                                                         *)
(* Representation choices.                                                 *)
(*  - A text is a sequence of one-character strings; a token is such a     *)
(*    sequence too.                                                        *)
(*  - A JSON object is a TLA+ record whose DOMAIN is the set of keys that  *)
(*    are present, so dict.get(key, default) is modelled by Get.           *)
(*  - A floating point logarithm math.log(n/d) is represented by the exact *)
(*    rational <<n, d>> it is the logarithm of; adding logarithms is       *)
(*    multiplying rationals, comparing logarithms is comparing rationals,  *)
(*    and -inf is the rational 0.                                          *)
(*  - The iteration order of the Python set all_categories is hash         *)
(*    dependent: it is an arbitrary permutation, fixed for one run.        *)
(***************************************************************************)
EXTENDS Integers, Sequences, FiniteSets, TLC

VARIABLES
    file,               \* the content of data_file (never written)
    pc,                 \* position of the run in train_naive_bayes
    branch,             \* which branch of the loader produced source_records
    source_records,     \* line 29
    idx,                \* number of records the loop of line 54 has consumed
    cur,                \* locals of the last iteration of the loop of line 54
    documents,          \* line 19
    all_categories,     \* line 20
    vocabulary,         \* line 21
    class_counts,       \* line 81
    class_word_counts,  \* line 82
    class_total_words,  \* line 83
    total_docs,         \* line 93
    catOrder,           \* iteration order of all_categories in this run
    log_priors,         \* line 94
    log_likelihoods,    \* line 102
    vocab_size,         \* line 101
    output,             \* the content of output_file
    correct,            \* line 137
    error,              \* the exception that ended the run, if any
    prediction          \* result of the classifier loop on a query document

vars == <<file, pc, branch, source_records, idx, cur, documents,
          all_categories, vocabulary, class_counts, class_word_counts,
          class_total_words, total_docs, catOrder, log_priors,
          log_likelihoods, vocab_size, output, correct, error, prediction>>

-----------------------------------------------------------------------------
(* Bounds of the input space *)

MaxLines == 3

MaxTextLen == 4

MaxSamples == 2

-----------------------------------------------------------------------------
(* Sequences and rationals *)

SeqsUpTo(S, n) == UNION {[1..k -> S] : k \in 0..n}

Range(s) == {s[i] : i \in 1..Len(s)}

Perms(S) == {p \in [1..Cardinality(S) -> S] : Range(p) = S}

RMul(a, b) == <<a[1] * b[1], a[2] * b[2]>>

RLess(a, b) == a[1] * b[2] < b[1] * a[2]

RLeq(a, b) == a[1] * b[2] <= b[1] * a[2]

RECURSIVE SumOver(_, _)
SumOver(f, S) ==
    IF S = {} THEN 0
    ELSE LET x == CHOOSE y \in S : TRUE
         IN  f[x] + SumOver(f, S \ {x})

-----------------------------------------------------------------------------
(* tokenize, lines 9-14 *)

UpperCase ==
    {"A","B","C","D","E","F","G","H","I","J","K","L","M",
     "N","O","P","Q","R","S","T","U","V","W","X","Y","Z"}

LowerCase ==
    {"a","b","c","d","e","f","g","h","i","j","k","l","m",
     "n","o","p","q","r","s","t","u","v","w","x","y","z"}

Digits == {"0","1","2","3","4","5","6","7","8","9"}

LowerOf ==
    ("A" :> "a") @@ ("B" :> "b") @@ ("C" :> "c") @@ ("D" :> "d") @@
    ("E" :> "e") @@ ("F" :> "f") @@ ("G" :> "g") @@ ("H" :> "h") @@
    ("I" :> "i") @@ ("J" :> "j") @@ ("K" :> "k") @@ ("L" :> "l") @@
    ("M" :> "m") @@ ("N" :> "n") @@ ("O" :> "o") @@ ("P" :> "p") @@
    ("Q" :> "q") @@ ("R" :> "r") @@ ("S" :> "s") @@ ("T" :> "t") @@
    ("U" :> "u") @@ ("V" :> "v") @@ ("W" :> "w") @@ ("X" :> "x") @@
    ("Y" :> "y") @@ ("Z" :> "z")

\* str.lower(), line 11
Lower(text) ==
    [i \in 1..Len(text) |->
        IF text[i] \in UpperCase THEN LowerOf[text[i]] ELSE text[i]]

\* IsTokenChar with the digits left out of the class
IsTokenChar_LettersOnly(c) == c \in LowerCase

\* the character class [a-z0-9] of line 13
IsTokenChar(c) == c \in LowerCase \cup Digits

\* re.findall(r'[a-z0-9]+', text), line 13: the maximal runs, left to right
RECURSIVE FindAll(_, _, _, _)
FindAll(text, i, run, found) ==
    IF i > Len(text)
    THEN IF run = <<>> THEN found ELSE Append(found, run)
    ELSE IF IsTokenChar(text[i])
         THEN FindAll(text, i + 1, Append(run, text[i]), found)
         ELSE FindAll(text, i + 1, <<>>,
                      IF run = <<>> THEN found ELSE Append(found, run))

tokenize(text) == FindAll(Lower(text), 1, <<>>, <<>>)

-----------------------------------------------------------------------------
(* The inputs: texts, labels, JSON objects, lines and files *)

TxtZomatoOrder == <<"z","o","m","a","t","o"," ","o","r","d","e","r">>

TxtUberRide == <<"u","b","e","r"," ","r","i","d","e">>

TxtUber == <<"U","b","e","r">>

TxtZomato == <<"z","o","m","a","t","o">>

TxtDashes == <<"-","-">>

TxtZomatoDelivery == <<"z","o","m","a","t","o"," ","d","e","l","i","v","e","r","y">>

TxtDelivery == <<"d","e","l","i","v","e","r","y">>

TokZomato == <<"z","o","m","a","t","o">>

TokOrder == <<"o","r","d","e","r">>

TokUber == <<"u","b","e","r">>

TokRide == <<"r","i","d","e">>

\* Python's None, as the value of a missing label
None == "<None>"

\* dict.get(key, default)
Get(obj, key, default) == IF key \in DOMAIN obj THEN obj[key] ELSE default

\* The record objects a file may hold.  Values are strings; a key that is
\* left out is absent from the JSON object.
Records ==
    { [text |-> TxtZomatoOrder, category |-> "Food"],
      [text |-> TxtUberRide, category |-> "Transport"],
      [merchant |-> TxtUber, text |-> TxtZomatoOrder,
       category |-> "Food", label |-> "Transport"],
      [merchant |-> <<>>, text |-> TxtUberRide,
       category |-> "", label |-> "Transport"],
      [text |-> TxtZomatoOrder],
      [merchant |-> TxtDashes, category |-> "Food"],
      [merchant |-> TxtZomato, category |-> "Food"],
      [category |-> "Transport"] }

\* An "App Export" object: one JSON object whose field samples is a list
ExportOf(samples) == [samples |-> samples]

\* A line of the file: blank (only whitespace), text that is not JSON
\* (starting with a brace or not), or one JSON object.
BlankLine == [kind |-> "blank"]

BadLine(brace) == [kind |-> "bad", brace |-> brace]

JsonLine(obj) == [kind |-> "json", obj |-> obj]

JsonlLines ==
    {BlankLine, BadLine(TRUE), BadLine(FALSE)}
        \cup {JsonLine(r) : r \in Records}
        \cup {JsonLine(ExportOf(<<[text |-> TxtUberRide, category |-> "Transport"]>>))}

\* A file is its lines, whether it starts with spaces (lead), and, when it
\* is one JSON document printed over several lines, that document (doc):
\* each line of such a file is a fragment, not JSON by itself.
JsonlFiles ==
    {[lead |-> FALSE, lines |-> ls] : ls \in SeqsUpTo(JsonlLines, MaxLines)}

OneLineFiles(obj) ==
    {[lead |-> l, lines |-> ls] :
        l \in BOOLEAN,
        ls \in {<<JsonLine(obj)>>, <<BlankLine, JsonLine(obj)>>,
                <<JsonLine(obj), BlankLine>>}}

PrettyFile(obj) ==
    [lead |-> FALSE, lines |-> <<BadLine(TRUE), BadLine(FALSE), BadLine(FALSE)>>,
     doc |-> obj]

ExportFiles ==
    UNION {OneLineFiles(ExportOf(ss)) \cup {PrettyFile(ExportOf(ss))} :
             ss \in SeqsUpTo(Records, MaxSamples)}

PrettyRecordFiles == {PrettyFile(r) : r \in Records}

Files == JsonlFiles \cup ExportFiles \cup PrettyRecordFiles

-----------------------------------------------------------------------------
(* 1. Load Data, lines 24-52 *)

NonBlank(lines) == SelectSeq(lines, LAMBDA l : l.kind # "blank")

\* f.read(1), line 25: the first character of the file, "" at end of file
FirstChar(f) ==
    IF Len(f.lines) = 0 THEN ""
    ELSE IF f.lead THEN " "
    ELSE LET l == f.lines[1]
         IN  IF l.kind = "blank" THEN "\n"
             ELSE IF l.kind = "json" THEN "{"
             ELSE IF l.brace THEN "{" ELSE "x"

\* json.load(f), line 33: the whole file as one JSON document.  It parses
\* when the file is one document (on one line between blank lines, or
\* printed over several lines); otherwise json.JSONDecodeError is raised.
JsonLoad(f) ==
    IF "doc" \in DOMAIN f THEN [ok |-> TRUE, val |-> f.doc]
    ELSE LET nb == NonBlank(f.lines)
         IN  IF Len(nb) = 1 /\ nb[1].kind = "json"
             THEN [ok |-> TRUE, val |-> nb[1].obj]
             ELSE [ok |-> FALSE]

\* The test of line 34
HasSamplesList(obj) == "samples" \in DOMAIN obj

\* The loops of lines 43-44, 48-49 and 51-52: every line with
\* line.strip() is parsed by json.loads and appended to `recs`;
\* json.loads raises on a line that is not JSON, which ends the loop.
RECURSIVE ReadLines(_, _, _)
ReadLines(lines, i, recs) ==
    IF i > Len(lines) THEN [ok |-> TRUE, recs |-> recs]
    ELSE IF lines[i].kind = "blank" THEN ReadLines(lines, i + 1, recs)
    ELSE IF lines[i].kind = "json"
         THEN ReadLines(lines, i + 1, Append(recs, lines[i].obj))
         ELSE [ok |-> FALSE, recs |-> recs]

\* The handler of lines 45-49: after a JSONDecodeError inside the try,
\* the file is read again line by line into the same source_records;
\* an error raised here is not caught.
Fallback(f, recs) ==
    LET r == ReadLines(f.lines, 1, recs)
    IN  [branch |-> "fallback", ok |-> r.ok, recs |-> r.recs]

\* Lines 29-52 as a whole: the branch taken, whether it ended without an
\* uncaught exception, and source_records.
LoadData(f) ==
    IF FirstChar(f) = "{"
    THEN LET j == JsonLoad(f)
         IN  IF j.ok
             THEN IF HasSamplesList(j.val)
                  THEN [branch |-> "export", ok |-> TRUE, recs |-> j.val.samples]
                  ELSE LET r == ReadLines(f.lines, 1, <<>>)
                       IN  IF r.ok
                           THEN [branch |-> "single", ok |-> TRUE, recs |-> r.recs]
                           ELSE Fallback(f, r.recs)
             ELSE Fallback(f, <<>>)
    ELSE LET r == ReadLines(f.lines, 1, <<>>)
         IN  [branch |-> "jsonl", ok |-> r.ok, recs |-> r.recs]

NoModel == [written |-> FALSE]

NoPrediction == [made |-> FALSE]

NoLocals == [seen |-> FALSE]

Init ==
    /\ file \in Files
    /\ pc = "load"
    /\ branch = "none"
    /\ source_records = <<>>
    /\ idx = 0
    /\ cur = NoLocals
    /\ documents = <<>>
    /\ all_categories = {}
    /\ vocabulary = {}
    /\ class_counts = <<>>
    /\ class_word_counts = <<>>
    /\ class_total_words = <<>>
    /\ total_docs = 0
    /\ catOrder = <<>>
    /\ log_priors = <<>>
    /\ log_likelihoods = <<>>
    /\ vocab_size = 0
    /\ output = NoModel
    /\ correct = 0
    /\ error = "none"
    /\ prediction = NoPrediction

Load ==
    /\ pc = "load"
    /\ LET r == LoadData(file)
       IN  /\ branch' = r.branch
           /\ source_records' = r.recs
           /\ pc' = IF r.ok THEN "ingest" ELSE "crashed"
           /\ error' = IF r.ok THEN "none" ELSE "JSONDecodeError"
    /\ UNCHANGED <<file, idx, cur, documents, all_categories, vocabulary,
                   class_counts, class_word_counts, class_total_words,
                   total_docs, catOrder, log_priors, log_likelihoods,
                   vocab_size, output, correct, prediction>>

-----------------------------------------------------------------------------
(* The loop over source_records, lines 54-78 *)

\* ResolveText with the two fields in the other order
ResolveText_TextFirst(record) ==
    LET text == Get(record, "text", <<>>)
    IN  IF text = <<>> THEN Get(record, "merchant", <<>>) ELSE text

\* Lines 59-61
ResolveText(record) ==
    LET text == Get(record, "merchant", <<>>)
    IN  IF text = <<>> THEN Get(record, "text", <<>>) ELSE text

\* ResolveCategory with the two fields in the other order
ResolveCategory_LabelFirst(record) ==
    LET category == Get(record, "label", None)
    IN  IF category = "" \/ category = None
        THEN Get(record, "category", None)
        ELSE category

\* Lines 63-65
ResolveCategory(record) ==
    LET category == Get(record, "category", None)
    IN  IF category = "" \/ category = None
        THEN Get(record, "label", None)
        ELSE category

\* Iteration without the test of line 70
Iteration_KeepEmpty(record) ==
    LET text     == ResolveText(record)
        category == ResolveCategory(record)
        skipped  == category = "" \/ category = None \/ text = <<>>
        tokens   == IF skipped THEN <<>> ELSE tokenize(text)
    IN  [seen |-> TRUE, record |-> record, text |-> text,
         category |-> category, tokens |-> tokens, kept |-> ~skipped]

\* One iteration of the loop, lines 59-74: the locals it computes and
\* whether the record reaches line 72
Iteration(record) ==
    LET text     == ResolveText(record)
        category == ResolveCategory(record)
        skipped  == category = "" \/ category = None \/ text = <<>>
        tokens   == IF skipped THEN <<>> ELSE tokenize(text)
    IN  [seen |-> TRUE, record |-> record, text |-> text,
         category |-> category, tokens |-> tokens,
         kept |-> ~skipped /\ tokens # <<>>]

IngestRecord ==
    /\ pc = "ingest"
    /\ idx < Len(source_records)
    /\ LET it == Iteration(source_records[idx + 1])
       IN  /\ cur' = it
           /\ documents' = IF it.kept
                           THEN Append(documents, <<it.tokens, it.category>>)
                           ELSE documents
           /\ all_categories' = IF it.kept
                                THEN all_categories \cup {it.category}
                                ELSE all_categories
           /\ vocabulary' = IF it.kept
                            THEN vocabulary \cup Range(it.tokens)
                            ELSE vocabulary
    /\ idx' = idx + 1
    /\ UNCHANGED <<file, pc, branch, source_records, class_counts,
                   class_word_counts, class_total_words, total_docs,
                   catOrder, log_priors, log_likelihoods, vocab_size,
                   output, correct, error, prediction>>

\* The loop is over: lines 76-78 print the three sizes
IngestDone ==
    /\ pc = "ingest"
    /\ idx = Len(source_records)
    /\ pc' = "count"
    /\ UNCHANGED <<file, branch, source_records, idx, cur, documents,
                   all_categories, vocabulary, class_counts,
                   class_word_counts, class_total_words, total_docs,
                   catOrder, log_priors, log_likelihoods, vocab_size,
                   output, correct, error, prediction>>

-----------------------------------------------------------------------------
(* 2. Train (Calculate Counts), lines 81-89 *)

\* Incr that sets the counter instead of adding to it
Incr_Assign(f, k) == IF k \in DOMAIN f THEN f ELSE f @@ (k :> 1)

\* A defaultdict(int): a function on the keys touched so far
Incr(f, k) ==
    IF k \in DOMAIN f THEN [f EXCEPT ![k] = @ + 1] ELSE f @@ (k :> 1)

\* The inner loop, lines 87-89, over the tokens of one document
RECURSIVE CountTokens(_, _, _)
CountTokens(tokens, i, wc) ==
    IF i > Len(tokens) THEN wc
    ELSE CountTokens(tokens, i + 1, Incr(wc, tokens[i]))

\* The outer loop, lines 85-89
RECURSIVE CountDocuments(_, _, _)
CountDocuments(docs, i, st) ==
    IF i > Len(docs) THEN st
    ELSE LET tokens   == docs[i][1]
             category == docs[i][2]
             wc       == Get(st.word_counts, category, <<>>)
             tw       == Get(st.total_words, category, 0)
         IN  CountDocuments(docs, i + 1,
                [counts |-> Incr(st.counts, category),
                 word_counts |->
                    [c \in DOMAIN st.word_counts \cup {category} |->
                        IF c = category THEN CountTokens(tokens, 1, wc)
                        ELSE st.word_counts[c]],
                 total_words |->
                    [c \in DOMAIN st.total_words \cup {category} |->
                        IF c = category THEN tw + Len(tokens)
                        ELSE st.total_words[c]]])

Count ==
    /\ pc = "count"
    /\ LET st == CountDocuments(documents, 1,
                    [counts |-> <<>>, word_counts |-> <<>>, total_words |-> <<>>])
       IN  /\ class_counts' = st.counts
           /\ class_word_counts' = st.word_counts
           /\ class_total_words' = st.total_words
    /\ pc' = "estimate"
    /\ UNCHANGED <<file, branch, source_records, idx, cur, documents,
                   all_categories, vocabulary, total_docs, catOrder,
                   log_priors, log_likelihoods, vocab_size, output,
                   correct, error, prediction>>

-----------------------------------------------------------------------------
(* 3. Calculate Log Probabilities, lines 93-112 *)

\* TotalDocs as the number of categories of the documents
TotalDocs_Categories(docs) ==
    Cardinality({docs[i][2] : i \in 1..Len(docs)})

\* Line 93
TotalDocs(docs) == Len(docs)

\* LogPrior with add-one smoothing of the count and no change of the total
LogPrior_AddOne(counts, cat, total) == <<Get(counts, cat, 0) + 1, total>>

\* Lines 96-97: log(class_counts[cat] / total_docs)
LogPrior(counts, cat, total) == <<Get(counts, cat, 0), total>>

\* Line 101
VocabSize(vocab) == Cardinality(vocab)

\* Denom without the size of the vocabulary
Denom_NoVocab(total_words, cat, vsize) == Get(total_words, cat, 0) + 1

\* Line 106
Denom(total_words, cat, vsize) == Get(total_words, cat, 0) + vsize

\* LogLikelihood without the add-one smoothing
LogLikelihood_NoSmoothing(word_counts, cat, word, denom) ==
    <<Get(Get(word_counts, cat, <<>>), word, 0), denom>>

\* Lines 110-112: log((count + 1) / denom)
LogLikelihood(word_counts, cat, word, denom) ==
    <<Get(Get(word_counts, cat, <<>>), word, 0) + 1, denom>>

\* TableWords as a sparse table: only the words seen in the category
TableWords_Sparse(vocab, word_counts, cat) ==
    DOMAIN Get(word_counts, cat, <<>>)

\* Line 109: the words a category's table gets an entry for
TableWords(vocab, word_counts, cat) == vocab

Estimate ==
    /\ pc = "estimate"
    /\ total_docs' = TotalDocs(documents)
    /\ \E order \in Perms(all_categories) : catOrder' = order
    /\ vocab_size' = VocabSize(vocabulary)
    /\ IF all_categories # {} /\ total_docs' = 0
       THEN /\ pc' = "crashed"
            /\ error' = "ZeroDivisionError"
            /\ UNCHANGED <<log_priors, log_likelihoods>>
       ELSE /\ log_priors' =
                [cat \in all_categories |->
                    LogPrior(class_counts, cat, total_docs')]
            /\ log_likelihoods' =
                [cat \in all_categories |->
                    [word \in TableWords(vocabulary, class_word_counts, cat) |->
                        LogLikelihood(class_word_counts, cat, word,
                            Denom(class_total_words, cat, vocab_size'))]]
            /\ pc' = "export"
            /\ UNCHANGED error
    /\ UNCHANGED <<file, branch, source_records, idx, cur, documents,
                   all_categories, vocabulary, class_counts,
                   class_word_counts, class_total_words, output, correct,
                   prediction>>

-----------------------------------------------------------------------------
(* 4. Export Model, lines 119-134 *)

Model(vsize, total, priors, likelihoods) ==
    [written |-> TRUE,
     metadata |-> [algorithm |-> "NaiveBayes", vocab_size |-> vsize,
                   doc_count |-> total],
     priors |-> priors,
     likelihoods |-> likelihoods]

Export ==
    /\ pc = "export"
    /\ output' = Model(vocab_size, total_docs, log_priors, log_likelihoods)
    /\ pc' = "selftest"
    /\ UNCHANGED <<file, branch, source_records, idx, cur, documents,
                   all_categories, vocabulary, class_counts,
                   class_word_counts, class_total_words, total_docs,
                   catOrder, log_priors, log_likelihoods, vocab_size,
                   correct, error, prediction>>

-----------------------------------------------------------------------------
(* Validation on training set, lines 137-155 *)

\* -float('inf'), line 140: the logarithm of 0
NegInf == <<0, 1>>

\* AddToken with an unknown token counted as probability zero
AddToken_ZeroForUnknown(score, table, token) ==
    IF token \in DOMAIN table THEN RMul(score, table[token])
    ELSE RMul(score, <<0, 1>>)

\* Line 145-146: one token's contribution to the score
AddToken(score, table, token) ==
    IF token \in DOMAIN table THEN RMul(score, table[token]) ELSE score

\* Lines 143-146: the score of one category
RECURSIVE ScoreFrom(_, _, _, _)
ScoreFrom(score, table, tokens, i) ==
    IF i > Len(tokens) THEN score
    ELSE ScoreFrom(AddToken(score, table, tokens[i]), table, tokens, i + 1)

Score(priors, likelihoods, cat, tokens) ==
    ScoreFrom(priors[cat], likelihoods[cat], tokens, 1)

\* Better with a comparison that is not strict
Better_OrEqual(score, best_score) == RLeq(best_score, score)

\* Better with the comparison the other way round
Better_Lowest(score, best_score) ==
    best_score[1] = 0 \/ RLess(score, best_score)

\* Line 148: does this score replace the best one so far
Better(score, best_score) == RLess(best_score, score)

\* Lines 139-150: the loop over the categories in iteration order
RECURSIVE BestFrom(_, _, _, _, _, _)
BestFrom(order, i, priors, likelihoods, tokens, best) ==
    IF i > Len(order) THEN best
    ELSE LET score == Score(priors, likelihoods, order[i], tokens)
         IN  BestFrom(order, i + 1, priors, likelihoods, tokens,
                IF Better(score, best.score)
                THEN [cat |-> order[i], score |-> score]
                ELSE best)

Classify(order, priors, likelihoods, tokens) ==
    BestFrom(order, 1, priors, likelihoods, tokens,
             [cat |-> None, score |-> NegInf])

\* Lines 138-153
RECURSIVE CountCorrect(_, _, _, _, _)
CountCorrect(docs, i, order, priors, likelihoods) ==
    IF i > Len(docs) THEN 0
    ELSE (IF Classify(order, priors, likelihoods, docs[i][1]).cat = docs[i][2]
          THEN 1 ELSE 0)
         + CountCorrect(docs, i + 1, order, priors, likelihoods)

SelfTest ==
    /\ pc = "selftest"
    /\ correct' = CountCorrect(documents, 1, catOrder, log_priors, log_likelihoods)
    /\ pc' = "report"
    /\ UNCHANGED <<file, branch, source_records, idx, cur, documents,
                   all_categories, vocabulary, class_counts,
                   class_word_counts, class_total_words, total_docs,
                   catOrder, log_priors, log_likelihoods, vocab_size,
                   output, error, prediction>>

\* Line 155: correct/total_docs
Report ==
    /\ pc = "report"
    /\ pc' = IF total_docs = 0 THEN "crashed" ELSE "done"
    /\ error' = IF total_docs = 0 THEN "ZeroDivisionError" ELSE error
    /\ UNCHANGED <<file, branch, source_records, idx, cur, documents,
                   all_categories, vocabulary, class_counts,
                   class_word_counts, class_total_words, total_docs,
                   catOrder, log_priors, log_likelihoods, vocab_size,
                   output, correct, prediction>>

\* The documents the classifier loop is asked about after training
Queries == {TxtZomatoDelivery, TxtDelivery, TxtUberRide}

\* The classifier loop of lines 139-150 on the tokens of a query text,
\* with the tables of this run
ClassifyQuery ==
    /\ pc = "done"
    /\ \E q \in Queries :
         LET tokens == tokenize(q)
             best   == Classify(catOrder, log_priors, log_likelihoods, tokens)
         IN  prediction' =
                [made |-> TRUE, tokens |-> tokens, cat |-> best.cat,
                 scores |-> [cat \in all_categories |->
                               Score(log_priors, log_likelihoods, cat, tokens)]]
    /\ UNCHANGED <<file, pc, branch, source_records, idx, cur, documents,
                   all_categories, vocabulary, class_counts,
                   class_word_counts, class_total_words, total_docs,
                   catOrder, log_priors, log_likelihoods, vocab_size,
                   output, correct, error>>

Next ==
    \/ Load
    \/ IngestRecord
    \/ IngestDone
    \/ Count
    \/ Estimate
    \/ Export
    \/ SelfTest
    \/ Report
    \/ ClassifyQuery

Spec == Init /\ [][Next]_vars

-----------------------------------------------------------------------------
(* What the claims are stated in: quantities of the corpus computed from   *)
(* the retained documents, independently of the counting loops             *)

\* The run has left the loop over source_records
Ingested ==
    pc \in {"count", "estimate", "export", "selftest", "report", "done"}
    \/ (pc = "crashed" /\ error = "ZeroDivisionError")

\* Number of positions of the retained documents of category c holding w
Occurrences(w, c) ==
    Cardinality({ij \in UNION {{<<i, j>> : j \in 1..Len(documents[i][1])} :
                                  i \in 1..Len(documents)} :
                    documents[ij[1]][2] = c /\ documents[ij[1]][1][ij[2]] = w})

\* The distinct tokens of the retained documents
CorpusTokens == UNION {Range(documents[i][1]) : i \in 1..Len(documents)}

\* The labels of the retained documents
CorpusLabels == {documents[i][2] : i \in 1..Len(documents)}

\* The JSON objects on the lines of a file, in order
ObjectsOf(lines) ==
    LET js == SelectSeq(lines, LAMBDA l : l.kind = "json")
    IN  [i \in 1..Len(js) |-> js[i].obj]

\* The first character of the file that is not whitespace
FirstNonWhitespace(f) ==
    LET nb == NonBlank(f.lines)
    IN  IF Len(nb) = 0 THEN ""
        ELSE IF nb[1].kind = "json" \/ nb[1].brace THEN "{" ELSE "x"

\* Product of a prior and the likelihoods of a sequence of tokens
RECURSIVE ProductOf(_, _, _)
ProductOf(start, table, tokens) ==
    IF tokens = <<>> THEN start
    ELSE ProductOf(RMul(start, table[Head(tokens)]), table, Tail(tokens))

-----------------------------------------------------------------------------
(* C1: when no document is retained the run never writes a model and never *)
(* reaches a division by zero.  It fails: the empty model is written by    *)
(* lines 131-132 and line 155 then divides by total_docs = 0.              *)
C1_NoModelFromEmptyCorpus ==
    (Ingested /\ documents = <<>>)
        => (~output.written /\ error # "ZeroDivisionError")

(* C2: a line that is not JSON is skipped: the run is never ended by       *)
(* json.JSONDecodeError, and the line-by-line branches ingest exactly the  *)
(* JSON lines of the file in order.  It fails: json.loads of lines 44, 49  *)
(* and 52 raises, and only line 44 is inside the try.                      *)
C2_MalformedLinesSkipped ==
    pc # "load" =>
        /\ error # "JSONDecodeError"
        /\ branch \in {"single", "fallback", "jsonl"}
              => source_records = ObjectsOf(file.lines)

(* C3 as stated: the text of a record is its field text when that is       *)
(* present and non-empty, and merchant only otherwise.                     *)
C3_TextFieldPreferred ==
    cur.seen =>
        LET t == Get(cur.record, "text", <<>>)
        IN  cur.text = IF t # <<>> THEN t ELSE Get(cur.record, "merchant", <<>>)

(* C3 amended: the text of a record is its field merchant when that is     *)
(* present and non-empty, and text only as the fallback; a retained record *)
(* carrying both is tokenized from merchant.                               *)
C3_MerchantFieldPreferred ==
    cur.seen =>
        LET m == Get(cur.record, "merchant", <<>>)
        IN  /\ cur.text = IF m # <<>> THEN m ELSE Get(cur.record, "text", <<>>)
            /\ cur.kept =>
                 /\ documents # <<>>
                 /\ documents[Len(documents)][1] = tokenize(cur.text)

C3_Witness ==
    /\ cur.seen
    /\ cur.kept
    /\ Get(cur.record, "merchant", <<>>) # <<>>
    /\ Get(cur.record, "text", <<>>) # <<>>
    /\ Get(cur.record, "merchant", <<>>) # Get(cur.record, "text", <<>>)
    /\ documents[Len(documents)][1] = <<TokUber>>

(* C4: when the first character of the file that is not whitespace is a    *)
(* brace and the whole file is one JSON object with a list samples, the    *)
(* records ingested are the elements of samples.  It fails: line 25 reads  *)
(* the first character, whitespace or not.                                 *)
C4_FirstNonWhitespaceDecides ==
    (pc # "load" /\ FirstNonWhitespace(file) = "{" /\ JsonLoad(file).ok
        /\ HasSamplesList(JsonLoad(file).val))
    => (pc # "crashed" /\ source_records = JsonLoad(file).val.samples)

(* C5: in a written model every category has a likelihood table, and the   *)
(* keys of each table are exactly the tokens of the corpus.                *)
C5_DenseLikelihoods ==
    output.written =>
        /\ DOMAIN output.likelihoods = DOMAIN output.priors
        /\ \A c \in DOMAIN output.priors :
              /\ DOMAIN output.likelihoods[c] = CorpusTokens
              /\ DOMAIN output.likelihoods[c] = vocabulary

C5_Witness ==
    /\ output.written
    /\ \E c \in DOMAIN output.likelihoods : \E w \in vocabulary :
          /\ Occurrences(w, c) = 0
          /\ w \in DOMAIN output.likelihoods[c]

(* C6: in a model written from a non-empty corpus every prior is           *)
(* count(c)/total with count(c) the number of documents labelled c, and    *)
(* the counts of the model's categories add up to the total.               *)
C6_PriorsSumToOne ==
    (output.written /\ documents # <<>>) =>
        LET P == output.priors
        IN  /\ P # <<>>
            /\ \A c \in DOMAIN P :
                 /\ P[c][1] = Cardinality({i \in 1..Len(documents) :
                                              documents[i][2] = c})
                 /\ P[c][2] > 0
                 /\ P[c][2] = SumOver([d \in DOMAIN P |-> P[d][1]], DOMAIN P)

C6_Witness ==
    /\ output.written
    /\ \E c, d \in DOMAIN output.priors :
          output.priors[c][1] = 2 /\ output.priors[d][1] = 1

(* C7: in a written model, for every category c the likelihood of w is     *)
(* (occurrences(w,c)+1)/D with one D for the whole table, and the          *)
(* numerators over the vocabulary add up to D.                             *)
C7_LikelihoodsSumToOne ==
    output.written =>
        \A c \in DOMAIN output.likelihoods :
            LET L == output.likelihoods[c]
            IN  \A w \in DOMAIN L :
                  /\ L[w][1] = Occurrences(w, c) + 1
                  /\ L[w][2] = SumOver([v \in DOMAIN L |-> L[v][1]], DOMAIN L)

C7_Witness ==
    /\ output.written
    /\ Cardinality(vocabulary) >= 3
    /\ \E c \in DOMAIN output.likelihoods : \E w, v \in vocabulary :
          Occurrences(w, c) = 2 /\ Occurrences(v, c) = 0

(* C8: within a category every likelihood is strictly positive, and a      *)
(* token with fewer occurrences in the category has a strictly smaller     *)
(* likelihood; so a token never seen in c is below every token seen in c.  *)
C8_SmoothingMonotone ==
    output.written =>
        \A c \in DOMAIN output.likelihoods :
            LET L == output.likelihoods[c]
            IN  \A w1 \in DOMAIN L :
                  /\ RLess(<<0, 1>>, L[w1])
                  /\ L[w1][2] > 0
                  /\ \A w2 \in DOMAIN L :
                       Occurrences(w1, c) < Occurrences(w2, c)
                           => RLess(L[w1], L[w2])

C8_Witness ==
    /\ output.written
    /\ \E c \in DOMAIN output.likelihoods : \E w1, w2 \in vocabulary :
          /\ Occurrences(w1, c) = 0
          /\ Occurrences(w2, c) >= 1
          /\ RLess(output.likelihoods[c][w1], output.likelihoods[c][w2])

(* C9: the score of a category is its prior times the likelihoods of the   *)
(* document's tokens that are in the vocabulary, with multiplicity; the    *)
(* category returned has a maximal score; a document with no token of the  *)
(* vocabulary gets a category of highest prior.                            *)
C9_UnknownTokensIgnored ==
    prediction.made =>
        LET known == SelectSeq(prediction.tokens, LAMBDA t : t \in CorpusTokens)
        IN  /\ prediction.cat \in DOMAIN output.priors
            /\ \A c \in DOMAIN output.priors :
                 /\ prediction.scores[c] =
                        ProductOf(output.priors[c], output.likelihoods[c], known)
                 /\ RLeq(prediction.scores[c], prediction.scores[prediction.cat])
                 /\ known = <<>> =>
                        RLeq(output.priors[c], output.priors[prediction.cat])

C9_Witness ==
    /\ prediction.made
    /\ Cardinality(DOMAIN output.priors) = 2
    /\ \E i, j \in 1..Len(prediction.tokens) :
          /\ prediction.tokens[i] \in vocabulary
          /\ prediction.tokens[j] \notin vocabulary
    /\ prediction.cat \in DOMAIN output.priors

(* C10: trained on ("zomato order", Food) twice and ("uber ride",          *)
(* Transport), the vocabulary is {zomato, order, uber, ride}, the document *)
(* counts are Food 2 and Transport 1, the priors 2/3 and 1/3, and          *)
(* "zomato delivery" is classified Food.                                   *)
ScenarioFile ==
    [lead |-> FALSE,
     lines |-> <<JsonLine([text |-> TxtZomatoOrder, category |-> "Food"]),
                 JsonLine([text |-> TxtZomatoOrder, category |-> "Food"]),
                 JsonLine([text |-> TxtUberRide, category |-> "Transport"])>>]

C10_ZomatoScenario ==
    file = ScenarioFile =>
        /\ pc \in {"selftest", "report", "done"} =>
              /\ vocabulary = {TokZomato, TokOrder, TokUber, TokRide}
              /\ class_counts = ("Food" :> 2) @@ ("Transport" :> 1)
              /\ output.priors = ("Food" :> <<2, 3>>) @@ ("Transport" :> <<1, 3>>)
              /\ output.metadata.doc_count = 3
        /\ (prediction.made /\ prediction.tokens = tokenize(TxtZomatoDelivery))
              => prediction.cat = "Food"

C10_Witness ==
    /\ file = ScenarioFile
    /\ prediction.made
    /\ prediction.tokens = tokenize(TxtZomatoDelivery)
    /\ prediction.cat = "Food"

-----------------------------------------------------------------------------
(* C11: a record with no non-empty category and no non-empty label, or     *)
(* with no non-empty text field, is dropped and adds nothing; the          *)
(* documents are, in order, the records that have a text and a label and   *)
(* whose text has a token, each under its category (preferred) or label,   *)
(* and the categories and vocabulary hold nothing but what these add.      *)
NonEmptyText(record, key) == key \in DOMAIN record /\ record[key] # <<>>

NonEmptyLabel(record, key) == key \in DOMAIN record /\ record[key] # ""

HasLabel(record) ==
    NonEmptyLabel(record, "category") \/ NonEmptyLabel(record, "label")

HasText(record) ==
    NonEmptyText(record, "merchant") \/ NonEmptyText(record, "text")

LabelOf(record) ==
    IF NonEmptyLabel(record, "category") THEN record.category ELSE record.label

TextOf(record) ==
    IF NonEmptyText(record, "merchant") THEN record.merchant ELSE record.text

\* The text holds a letter or a digit, so it has a token once lower-cased
HasToken(text) ==
    \E i \in 1..Len(text) : text[i] \in LowerCase \cup UpperCase \cup Digits

Retained(record) ==
    HasLabel(record) /\ HasText(record) /\ HasToken(TextOf(record))

\* The labels, in order, of the retained records among the first n
RECURSIVE RetainedLabels(_, _)
RetainedLabels(records, n) ==
    IF n = 0 THEN <<>>
    ELSE IF Retained(records[n])
         THEN Append(RetainedLabels(records, n - 1), LabelOf(records[n]))
         ELSE RetainedLabels(records, n - 1)

C11_UnresolvedRecordsDropped ==
    /\ (cur.seen /\ ~(HasLabel(cur.record) /\ HasText(cur.record)))
          => ~cur.kept
    /\ (pc = "ingest" \/ Ingested) =>
          /\ [i \in 1..Len(documents) |-> documents[i][2]]
                = RetainedLabels(source_records, idx)
          /\ all_categories = Range(RetainedLabels(source_records, idx))
          /\ vocabulary = CorpusTokens
    /\ Ingested =>
          Len(documents) = Cardinality({i \in 1..Len(source_records) :
                                           Retained(source_records[i])})

C11_Witness ==
    /\ cur.seen
    /\ ~cur.kept
    /\ HasText(cur.record)
    /\ ~HasLabel(cur.record)
    /\ documents # <<>>
    /\ Ingested
    /\ Len(documents) < Len(source_records)

-----------------------------------------------------------------------------
(* tokenize on its own: the function applied to every text over a small    *)
(* alphabet, and applied again to the space-joined tokens                  *)

\* Lower and upper case letters, a digit, a separator, a space, and a
\* letter outside ASCII
TokAlphabet == {"a", "b", "Z", "7", " ", "-", "é"}

TokTexts == SeqsUpTo(TokAlphabet, MaxTextLen)

\* " ".join(tokens)
RECURSIVE Join(_)
Join(tokens) ==
    IF tokens = <<>> THEN <<>>
    ELSE IF Len(tokens) = 1 THEN tokens[1]
    ELSE tokens[1] \o <<" ">> \o Join(Tail(tokens))

TokInit ==
    /\ file = [lead |-> FALSE, lines |-> <<>>]
    /\ pc = "tokenize"
    /\ branch = "none"
    /\ source_records = <<>>
    /\ idx = 0
    /\ \E text \in TokTexts : cur = [seen |-> FALSE, text |-> text]
    /\ documents = <<>>
    /\ all_categories = {}
    /\ vocabulary = {}
    /\ class_counts = <<>>
    /\ class_word_counts = <<>>
    /\ class_total_words = <<>>
    /\ total_docs = 0
    /\ catOrder = <<>>
    /\ log_priors = <<>>
    /\ log_likelihoods = <<>>
    /\ vocab_size = 0
    /\ output = NoModel
    /\ correct = 0
    /\ error = "none"
    /\ prediction = NoPrediction

\* tokenize(text)
TokenizeText ==
    /\ pc = "tokenize"
    /\ cur' = [seen |-> FALSE, text |-> cur.text, tokens |-> tokenize(cur.text)]
    /\ pc' = "rejoin"
    /\ UNCHANGED <<file, branch, source_records, idx, documents,
                   all_categories, vocabulary, class_counts,
                   class_word_counts, class_total_words, total_docs,
                   catOrder, log_priors, log_likelihoods, vocab_size,
                   output, correct, error, prediction>>

\* tokenize(" ".join(tokens))
TokenizeJoined ==
    /\ pc = "rejoin"
    /\ cur' = [seen |-> FALSE, text |-> cur.text, tokens |-> cur.tokens,
               joined |-> Join(cur.tokens),
               again |-> tokenize(Join(cur.tokens))]
    /\ pc' = "tokenized"
    /\ UNCHANGED <<file, branch, source_records, idx, documents,
                   all_categories, vocabulary, class_counts,
                   class_word_counts, class_total_words, total_docs,
                   catOrder, log_priors, log_likelihoods, vocab_size,
                   output, correct, error, prediction>>

TokNext == TokenizeText \/ TokenizeJoined

SpecTokenize == TokInit /\ [][TokNext]_vars

\* The maximal runs of the characters a-z and 0-9 in s, as <<first, last>>
MaximalRuns(s) ==
    LET In(i) == s[i] \in LowerCase \cup Digits
    IN  {r \in (1..Len(s)) \X (1..Len(s)) :
            /\ r[1] <= r[2]
            /\ \A k \in r[1]..r[2] : In(k)
            /\ r[1] = 1 \/ ~In(r[1] - 1)
            /\ r[2] = Len(s) \/ ~In(r[2] + 1)}

(* C13: every token of tokenize(x) is a non-empty maximal run of a-z and   *)
(* 0-9 in the lower-cased x, the tokens are all these runs from left to    *)
(* right, and tokenizing the space-joined tokens gives the same tokens.    *)
C13_TokenizeIdempotent ==
    /\ pc \in {"rejoin", "tokenized"} =>
          LET s    == Lower(cur.text)
              runs == MaximalRuns(s)
          IN  /\ Len(cur.tokens) = Cardinality(runs)
              /\ \A r \in runs :
                    cur.tokens[1 + Cardinality({q \in runs : q[1] < r[1]})]
                        = SubSeq(s, r[1], r[2])
              /\ \A k \in 1..Len(cur.tokens) : cur.tokens[k] # <<>>
    /\ pc = "tokenized" => cur.again = cur.tokens

C13_Witness ==
    /\ pc = "tokenized"
    /\ Len(cur.tokens) = 2
    /\ \E i \in 1..Len(cur.text) : cur.text[i] \in UpperCase
    /\ \E i \in 1..Len(cur.text) : cur.text[i] \in Digits
    /\ cur.joined # cur.text
    /\ cur.again = cur.tokens

-----------------------------------------------------------------------------
(* C12: two runs over the same training set report the same number of      *)
(* correct predictions, whatever order each run iterates all_categories    *)
(* in.  The other run has the same documents and tables and any order of   *)
(* the categories.  It fails: on a tie line 148 keeps the first category,  *)
(* and which one is first is the set's iteration order.                    *)
C12_AccuracyReproducible ==
    pc \in {"report", "done"} =>
        \A order \in Perms(all_categories) :
            CountCorrect(documents, 1, order, log_priors, log_likelihoods)
                = correct

-----------------------------------------------------------------------------
\* The categories whose score for the query document is maximal
TopCategories ==
    {c \in DOMAIN prediction.scores :
        \A d \in DOMAIN prediction.scores :
            RLeq(prediction.scores[d], prediction.scores[c])}

(* C14: the classifier returns the category that comes first in the        *)
(* iteration order among those with the maximal score: a later category    *)
(* with an equal score does not replace it.                                *)
C14_FirstMaximumWins ==
    prediction.made =>
        \E i \in 1..Len(catOrder) :
            /\ catOrder[i] = prediction.cat
            /\ catOrder[i] \in TopCategories
            /\ \A j \in 1..(i - 1) : catOrder[j] \notin TopCategories

C14_Witness ==
    /\ prediction.made
    /\ Cardinality(TopCategories) = 2
    /\ prediction.tokens # <<>>
    /\ \E t \in Range(prediction.tokens) : t \in vocabulary
    /\ prediction.cat = catOrder[1]
    /\ output.priors[catOrder[1]] # output.priors[catOrder[2]]

-----------------------------------------------------------------------------
\* The record has a text and a label, and its text has no token
Tokenless(record) ==
    HasLabel(record) /\ HasText(record) /\ ~HasToken(TextOf(record))

\* The records with label c that are retained
RetainedWithLabel(c) ==
    {i \in 1..Len(source_records) :
        Retained(source_records[i]) /\ LabelOf(source_records[i]) = c}

(* C15: a record whose text has no token is dropped: every retained        *)
(* document has at least one token, the document count of a category is    *)
(* the number of its records with a token, and a category all of whose     *)
(* records have no token is in neither table of the model.                 *)
C15_TokenlessRecordsDropped ==
    /\ \A i \in 1..Len(documents) : documents[i][1] # <<>>
    /\ (cur.seen /\ Tokenless(cur.record)) => ~cur.kept
    /\ \A i \in 1..Len(source_records) :
          HasLabel(source_records[i]) =>
            LET c == LabelOf(source_records[i])
            IN  /\ pc \in {"estimate", "export", "selftest", "report", "done"}
                      => Get(class_counts, c, 0)
                            = Cardinality(RetainedWithLabel(c))
                /\ (output.written /\ RetainedWithLabel(c) = {})
                      => /\ c \notin DOMAIN output.priors
                         /\ c \notin DOMAIN output.likelihoods

C15_Witness ==
    /\ output.written
    /\ output.priors # <<>>
    /\ \E i \in 1..Len(source_records) :
          /\ Tokenless(source_records[i])
          /\ LabelOf(source_records[i]) \notin DOMAIN output.priors
          /\ Get(class_counts, LabelOf(source_records[i]), 0) = 0

-----------------------------------------------------------------------------
\* The counting loops are over
Counted == pc \in {"estimate", "export", "selftest", "report", "done"}

(* C16: after the counting loops, for every category c of the retained     *)
(* documents the document count is the number of documents labelled c,     *)
(* the count of w in c is the number of occurrences of w in the documents  *)
(* of c, the total-token count is the sum of these counts, and the         *)
(* vocabulary is the set of tokens counted at least once in some category. *)
C16_AggregatedCounts ==
    Counted =>
        /\ DOMAIN class_counts = CorpusLabels
        /\ DOMAIN class_word_counts = CorpusLabels
        /\ DOMAIN class_total_words = CorpusLabels
        /\ \A c \in CorpusLabels :
              /\ class_counts[c] = Cardinality({i \in 1..Len(documents) :
                                                   documents[i][2] = c})
              /\ \A w \in DOMAIN class_word_counts[c] :
                    /\ class_word_counts[c][w] = Occurrences(w, c)
                    /\ class_word_counts[c][w] > 0
              /\ \A w \in vocabulary \ DOMAIN class_word_counts[c] :
                    Occurrences(w, c) = 0
              /\ class_total_words[c] =
                    SumOver(class_word_counts[c], DOMAIN class_word_counts[c])
        /\ vocabulary = UNION {DOMAIN class_word_counts[c] : c \in CorpusLabels}

C16_Witness ==
    /\ Counted
    /\ \E c \in CorpusLabels : \E w \in vocabulary :
          /\ class_counts[c] = 2
          /\ class_word_counts[c][w] = 2
          /\ class_total_words[c] = 4
          /\ Cardinality(DOMAIN class_word_counts[c]) = 2
    /\ Cardinality(CorpusLabels) = 2

(* C17: in a written model the priors and the likelihoods have the labels  *)
(* of the retained documents as their keys, every such category has at     *)
(* least one document, doc_count is the number of retained documents, and  *)
(* vocab_size is the number of distinct tokens and the size of every       *)
(* category's likelihood table.                                            *)
C17_ModelShape ==
    output.written =>
        /\ DOMAIN output.priors = CorpusLabels
        /\ DOMAIN output.likelihoods = CorpusLabels
        /\ output.metadata.doc_count = Len(documents)
        /\ output.metadata.vocab_size = Cardinality(CorpusTokens)
        /\ \A c \in CorpusLabels :
              /\ class_counts[c] >= 1
              /\ output.priors[c][1] >= 1
              /\ output.priors[c][2] = output.metadata.doc_count
              /\ Cardinality(DOMAIN output.likelihoods[c])
                    = output.metadata.vocab_size

C17_Witness ==
    /\ output.written
    /\ Cardinality(DOMAIN output.priors) = 2
    /\ output.metadata.doc_count = 3
    /\ output.metadata.vocab_size = 3

=============================================================================
